---------------------------- MODULE Spec2Model ----------------------------
(***************************************************************************)
(* Model of the Sentence-Simulator backend: the ShakespeareMarkov class    *)
(* (backend/markov.py) and the FastAPI shell around it (backend/main.py).  *)
(*                                                                         *)
(* A word is a string.  The input of the vocabulary construction is the    *)
(* list cleaned_words that lines 22-58 of load_and_process compute from    *)
(* the corpus file; the corpus is given here as that list.                 *)
(* Probabilities are exact rationals <<numerator, denominator>>; the code  *)
(* computes them in floating point.                                        *)
(***************************************************************************)
EXTENDS Integers, Sequences, FiniteSets, TLC

VARIABLES
    corpus,        \* the cleaned words of the corpus file (environment)
    phase,         \* how far the one ShakespeareMarkov object has got
    mlag,          \* self.mlag
    top_k,         \* self.top_k
    vocab,         \* self.vocab
    word_to_id,    \* self.word_to_id
    id_to_word,    \* self.id_to_word
    M,             \* self.M : [isNone, rows]
    tokens,        \* self.tokens
    ml_models,     \* main.ml_models
    lifespan_pc,   \* position of main.lifespan
    req,           \* per caller: the generate_text call in progress
    nw             \* the last direct next_word call and its outcome

vars == <<corpus, phase, mlag, top_k, vocab, word_to_id, id_to_word, M,
          tokens, ml_models, lifespan_pc, req, nw>>

modelVars == <<mlag, top_k, vocab, word_to_id, id_to_word, M, tokens>>

-----------------------------------------------------------------------------
(* Program constants *)

\* markov.py:73  out-of-vocabulary id
Sentinel == -1

\* markov.py:6  default of mlag
DefaultMlag == 4

\* markov.py:6  default of top_k
DefaultTopK == 1000

\* markov.py:169  cap on the generated tokens
MaxGenerated == 50

\* markov.py:169  the token that ends a sentence
Terminator == "."

\* markov.py:177
puncs == <<",", ".", ";", "!", ":", "?">>

\* markov.py:162
ErrorMessage == "Error: Start word not in vocabulary."

(* Bounds of the model *)

\* longest corpus (in cleaned words) of the exhaustive library specification
MaxCorpusLen == 5

\* largest context order of the exhaustive library specification
MaxMlag == 2

\* longest key_words list handed to a direct next_word call
MaxKeyLen == 2

-----------------------------------------------------------------------------
(* Helpers *)

Range(s) == {s[i] : i \in 1..Len(s)}

SeqsUpTo(S, n) == UNION {[1..k -> S] : k \in 0..n}

Min(a, b) == IF a < b THEN a ELSE b

\* s[-n:] for n >= 1
LastN(s, n) == IF Len(s) <= n THEN s ELSE SubSeq(s, Len(s) - n + 1, Len(s))

RECURSIVE GCD(_, _)
GCD(a, b) == IF b = 0 THEN a ELSE GCD(b, a % b)

\* exact rationals, kept in lowest terms
Rat(n, d) == LET g == GCD(n, d) IN <<n \div g, d \div g>>

RAdd(p, q) == Rat(p[1] * q[2] + q[1] * p[2], p[2] * q[2])

RDiv(p, q) == Rat(p[1] * q[2], p[2] * q[1])

RECURSIVE RSum(_)
RSum(s) == IF s = <<>> THEN <<0, 1>> ELSE RAdd(s[1], RSum(Tail(s)))

-----------------------------------------------------------------------------
(* load_and_process, lines 60-75: vocabulary and token stream *)

\* Counter(cleaned_words)[w]
Count(w, ws) == Cardinality({i \in 1..Len(ws) : ws[i] = w})

\* position of w among the keys of Counter(cleaned_words): insertion order
FirstSeen(w, ws) == CHOOSE i \in 1..Len(ws) : ws[i] = w /\ \A j \in 1..(i - 1) : ws[j] # w

\* number of words that most_common lists before w: higher count first, and
\* among equal counts the one counted first (the sort is stable)
RankOf(w, ws) ==
    Cardinality({v \in Range(ws) :
        \/ Count(v, ws) > Count(w, ws)
        \/ Count(v, ws) = Count(w, ws) /\ FirstSeen(v, ws) < FirstSeen(w, ws)})

\* [word for word, count in Counter(cleaned_words).most_common(k)];
\* most_common returns [] for k <= 0 and raises nothing
MostCommon(ws, k) ==
    LET n == IF k <= 0 THEN 0 ELSE Min(k, Cardinality(Range(ws)))
    IN  [r \in 1..n |-> CHOOSE w \in Range(ws) : RankOf(w, ws) = r - 1]

\* {w: i for i, w in enumerate(vocab)}
WordToId(vc) == [w \in Range(vc) |-> (CHOOSE i \in 1..Len(vc) : vc[i] = w) - 1]

\* {i: w for i, w in enumerate(vocab)}
IdToWord(vc) == [i \in 0..(Len(vc) - 1) |-> vc[i + 1]]

\* [word_to_id.get(w, -1) for w in cleaned_words]
Tokenize(ws, w2i) ==
    [i \in 1..Len(ws) |-> IF ws[i] \in DOMAIN w2i THEN w2i[ws[i]] ELSE Sentinel]

(* build_matrix, lines 81-98 *)

\* sliding_window_view(tokens_np, mlag + 1): one row per window position
SlidingWindows(tk, ml) == [r \in 1..(Len(tk) - ml) |-> SubSeq(tk, r, r + ml)]

\* faulty variant of ValidRow, which the properties must tell apart: the whole window must be valid
ValidRowWholeWindow(row) == \A i \in 1..Len(row) : row[i] # Sentinel

\* valid_target & valid_context
ValidRow(row) == row[Len(row)] # Sentinel /\ row[Len(row) - 1] # Sentinel

\* M_view[valid_target & valid_context]
BuildRows(tk, ml) == SelectSeq(SlidingWindows(tk, ml), ValidRow)

\* sliding_window_view raises ValueError when the window is longer than the
\* stream
BuildRaises(tk, ml) == ml + 1 > Len(tk)

NoneM == [isNone |-> TRUE, rows |-> <<>>]

-----------------------------------------------------------------------------
(* The ShakespeareMarkov object *)

\* __init__(filepath, mlag, top_k)
Construct(ml, tk) ==
    /\ phase = "none"
    /\ phase' = "constructed"
    /\ mlag' = ml
    /\ top_k' = tk
    /\ vocab' = <<>>
    /\ word_to_id' = <<>>
    /\ id_to_word' = <<>>
    /\ M' = NoneM
    /\ tokens' = <<>>

\* load_and_process(), from the list cleaned_words (the corpus) on
LoadAndProcess ==
    /\ phase = "constructed"
    /\ LET vc == MostCommon(corpus, top_k)
       IN  /\ vocab' = vc
           /\ word_to_id' = WordToId(vc)
           /\ id_to_word' = IdToWord(vc)
           /\ tokens' = Tokenize(corpus, WordToId(vc))
    /\ phase' = "processed"
    /\ UNCHANGED <<mlag, top_k, M>>

\* build_matrix()
BuildMatrix ==
    /\ phase = "processed"
    /\ IF BuildRaises(tokens, mlag)
       THEN phase' = "raised" /\ UNCHANGED M
       ELSE /\ M' = [isNone |-> FALSE, rows |-> BuildRows(tokens, mlag)]
            /\ phase' = "built"
    /\ UNCHANGED <<mlag, top_k, vocab, word_to_id, id_to_word, tokens>>

-----------------------------------------------------------------------------
(* next_word, lines 102-157 *)

\* k in self.word_to_id
InVocab(k) == k \in DOMAIN word_to_id

\* lines 108-112: the ids of the known words, cut to the trailing mlag
KeyIds(key_words) ==
    LET known == SelectSeq(key_words, InVocab)
        key_ids == [j \in 1..Len(known) |-> word_to_id[known[j]]]
    IN  IF Len(key_ids) > mlag THEN LastN(key_ids, mlag) ELSE key_ids

\* lines 120-132: np.all(M[:, mlag-i : mlag] == key_ids[-i:], axis=1)
RowMatches(row, key_ids, i) ==
    LET sub_key == LastN(key_ids, i)
    IN  \A j \in 1..i : row[mlag - i + j] = sub_key[j]

\* faulty variant of MatchedTargets, which the properties must tell apart: the column before the target is read
MatchedTargetsOffByOne(key_ids, i) ==
    LET Hit(row) == RowMatches(row, key_ids, i)
        hits == SelectSeq(M.rows, Hit)
    IN  [r \in 1..Len(hits) |-> hits[r][mlag]]

\* line 136: M[matches, mlag], the targets of the matching rows, in row order
MatchedTargets(key_ids, i) ==
    LET Hit(row) == RowMatches(row, key_ids, i)
        hits == SelectSeq(M.rows, Hit)
    IN  [r \in 1..Len(hits) |-> hits[r][mlag + 1]]

\* line 142: the weight of each row matched at one level
LevelWeight(matched_targets) == Rat(1, Len(matched_targets))

\* lines 134-143: a level that matched extends the candidates and the weights
\* collected so far
Extend(matched_targets, found) ==
    IF matched_targets = <<>> THEN found
    ELSE [candidates |-> found.candidates \o matched_targets,
          weights |-> found.weights \o [r \in 1..Len(matched_targets) |->
                                           LevelWeight(matched_targets)]]

\* faulty variant of BackOff, which the properties must tell apart: the loop stops at the longest level that matches
RECURSIVE BackOffFirstMatch(_, _)
BackOffFirstMatch(key_ids, i) ==
    IF i > Len(key_ids) THEN [candidates |-> <<>>, weights |-> <<>>]
    ELSE CHOOSE found \in {IF before.candidates # <<>> THEN before
                           ELSE Extend(matched_targets, before) :
                               matched_targets \in {MatchedTargets(key_ids, i)},
                               before \in {BackOffFirstMatch(key_ids, i + 1)}} : TRUE

\* lines 119-143: the loop over i = len(key_ids), ..., 1. BackOff(key_ids, i)
\* is what the lists hold once the levels len(key_ids), ..., i have been tried
RECURSIVE BackOff(_, _)
BackOff(key_ids, i) ==
    IF i > Len(key_ids) THEN [candidates |-> <<>>, weights |-> <<>>]
    ELSE CHOOSE found \in {Extend(matched_targets, before) :
                               matched_targets \in {MatchedTargets(key_ids, i)},
                               before \in {BackOff(key_ids, i + 1)}} : TRUE

\* faulty variant of NonSentinel, which the properties must tell apart: the fallback draws from the whole stream
NonSentinelUnfiltered(t) == TRUE

\* line 148
NonSentinel(t) == t # Sentinel

ValidTokens == SelectSeq(tokens, NonSentinel)

\* lines 119-143 for the key key_ids
Found(key_ids) == BackOff(key_ids, 1)

\* What the call draws from (lines 146-149 and 156): the ids that
\* np.random.choice picks among, one per position; the valid tokens of the
\* stream when no level matched
Pool(key_ids) ==
    IF Found(key_ids).candidates = <<>> THEN ValidTokens ELSE Found(key_ids).candidates

\* The probability of each position of the pool: uniform in the fallback
\* (line 149), weights / weights.sum() otherwise (lines 153-156)
Probs(key_ids) ==
    LET weights == Found(key_ids).weights
        total == RSum(weights)
        valid_tokens == ValidTokens
    IN  IF weights = <<>>
        THEN [r \in 1..Len(valid_tokens) |-> Rat(1, Len(valid_tokens))]
        ELSE [r \in 1..Len(weights) |-> RDiv(weights[r], total)]

\* The call raises: self.M is None when a level is tried (line 129), or
\* np.random.choice is handed an empty list (line 149).
Raises(key_ids) ==
    \/ key_ids # <<>> /\ M.isNone
    \/ Pool(key_ids) = <<>>

\* The outcomes of the call: "raised", or the word of the id drawn.
\* self.id_to_word[chosen_id] raises KeyError for an id without an entry.
Outcomes(key_ids) ==
    IF Raises(key_ids) THEN {[raised |-> TRUE, word |-> ""]}
    ELSE {IF id \in DOMAIN id_to_word
          THEN [raised |-> FALSE, word |-> id_to_word[id]]
          ELSE [raised |-> TRUE, word |-> ""] : id \in Range(Pool(key_ids))}

\* The probability with which the call returns word w
ProbOf(key_ids, w) ==
    LET pool == Pool(key_ids)
        probs == Probs(key_ids)
        mine == {r \in 1..Len(pool) :
                    pool[r] \in DOMAIN id_to_word /\ id_to_word[pool[r]] = w}
        RECURSIVE Add(_)
        Add(S) == IF S = {} THEN <<0, 1>>
                  ELSE LET r == CHOOSE x \in S : TRUE
                       IN  RAdd(probs[r], Add(S \ {r}))
    IN  Add(mine)

\* next_word(key_words): lines 108-112 compute key_ids once, the rest of the
\* call works on it
NextWordOutcomes(key_words) == UNION {Outcomes(key_ids) : key_ids \in {KeyIds(key_words)}}

NextWordProb(key_words, w) ==
    CHOOSE p \in {ProbOf(key_ids, w) : key_ids \in {KeyIds(key_words)}} : TRUE

\* line 146: no level matched a row
Fallback(key_words) == Found(KeyIds(key_words)).candidates = <<>>

-----------------------------------------------------------------------------
(* generate_sentence, lines 159-181, inside generate_text, main.py 60-75 *)

\* the threads that serve POST /generate
Callers == {"c1", "c2"}

\* the start_word values of the requests
RequestWords == {"Romeo", "A", ".", "unknownword"}

\* str.lower on the request words
Lower(w) == CASE w = "Romeo" -> "romeo"
              [] w = "A" -> "a"
              [] OTHER -> w

Idle == [pc |-> "idle", start_word |-> "", generated |-> <<>>, current_token |-> "",
         count |-> 0, kind |-> "none", status |-> 0, body |-> <<>>,
         sawModel |-> FALSE, draws |-> 0]

\* lines 176-179: " ".join(generated) with text.replace(" " + p, p) for each
\* mark p.  The text is given as one <<separator, token>> pair per token: a
\* mark is always a token of its own, so the replacements remove exactly the
\* separators that stand before a mark.
Detokenize(g) ==
    [i \in 1..Len(g) |-> <<IF i = 1 \/ g[i] \in Range(puncs) THEN "" ELSE " ", g[i]>>]

\* faulty variant of UnknownStartWord, which the properties must tell apart: the check is missing
UnknownStartWordNever(start_word) == FALSE

\* line 161: start_word not in self.word_to_id
UnknownStartWord(start_word) == ~InVocab(start_word)

\* faulty variant of SelfAfterNextWord, which the properties must tell apart: the table is narrowed in place
SelfAfterNextWordNarrowed ==
    /\ M' = [M EXCEPT !.rows = IF @ = <<>> THEN @ ELSE Tail(@)]
    /\ UNCHANGED <<mlag, top_k, vocab, word_to_id, id_to_word, tokens>>

\* lines 102-157: next_word assigns no attribute of self
SelfAfterNextWord == UNCHANGED modelVars

\* faulty variant of LoopContinues, which the properties must tell apart: the cap is tested one pass late
LoopContinuesOffByOne(current_token, count) ==
    current_token # Terminator /\ count <= MaxGenerated

\* faulty variant of LoopContinues, which the properties must tell apart: only the cap ends the loop
LoopContinuesPastTerminator(current_token, count) == count < MaxGenerated

\* line 169: the loop test
LoopContinues(current_token, count) == current_token # Terminator /\ count < MaxGenerated

\* main.py 65-67 and markov.py 161-165: the request is received; it is
\* rejected (503), answered with the error message, or enters the loop.
\* sawModel and draws are history: whether a model was registered, and the
\* number of next_word calls made for the request.
GenerateText(c, raw) ==
    /\ req[c].pc \in {"idle", "done"}
    /\ IF "shakespeare" \notin DOMAIN ml_models
       THEN req' = [req EXCEPT ![c] = [Idle EXCEPT !.pc = "done", !.start_word = raw,
                        !.kind = "unavailable", !.status = 503,
                        !.body = <<<<"", "Model is not ready">>>>]]
       ELSE LET start_word == Lower(raw)
            IN  IF UnknownStartWord(start_word)
                THEN req' = [req EXCEPT ![c] = [Idle EXCEPT !.pc = "done",
                                 !.start_word = start_word, !.sawModel = TRUE,
                                 !.kind = "sentence", !.status = 200,
                                 !.body = <<<<"", ErrorMessage>>>>]]
                ELSE req' = [req EXCEPT ![c] = [Idle EXCEPT !.pc = "loop",
                                 !.start_word = start_word, !.sawModel = TRUE,
                                 !.generated = <<start_word>>,
                                 !.current_token = start_word, !.count = 0]]
    /\ UNCHANGED <<corpus, phase, modelVars, ml_models, lifespan_pc, nw>>

\* lines 169-173: one pass of the loop; an exception of next_word leaves the
\* handler and the request is answered 500
LoopIteration(c) ==
    /\ req[c].pc = "loop"
    /\ LoopContinues(req[c].current_token, req[c].count)
    /\ \E o \in NextWordOutcomes(req[c].generated) :
          IF o.raised
          THEN req' = [req EXCEPT ![c].pc = "done", ![c].kind = "server_error",
                                  ![c].status = 500, ![c].draws = @ + 1]
          ELSE req' = [req EXCEPT ![c].generated = Append(@, o.word),
                                  ![c].current_token = o.word,
                                  ![c].count = @ + 1, ![c].draws = @ + 1]
    /\ SelfAfterNextWord
    /\ UNCHANGED <<corpus, phase, ml_models, lifespan_pc, nw>>

\* lines 175-181 and main.py 75: the loop is left and the text returned
ReturnSentence(c) ==
    /\ req[c].pc = "loop"
    /\ ~LoopContinues(req[c].current_token, req[c].count)
    /\ req' = [req EXCEPT ![c].pc = "done", ![c].kind = "sentence", ![c].status = 200,
                          ![c].body = Detokenize(req[c].generated)]
    /\ UNCHANGED <<corpus, phase, modelVars, ml_models, lifespan_pc, nw>>

-----------------------------------------------------------------------------
(* lifespan, main.py 13-24 *)

\* line 17: model = ShakespeareMarkov()
LifespanConstruct ==
    /\ lifespan_pc = "startup"
    /\ Construct(DefaultMlag, DefaultTopK)
    /\ UNCHANGED <<corpus, ml_models, lifespan_pc, req, nw>>

\* line 18
LifespanLoad ==
    /\ lifespan_pc = "startup"
    /\ LoadAndProcess
    /\ UNCHANGED <<corpus, ml_models, lifespan_pc, req, nw>>

\* line 19; an exception ends the startup
LifespanBuild ==
    /\ lifespan_pc = "startup"
    /\ BuildMatrix
    /\ lifespan_pc' = IF phase' = "raised" THEN "failed" ELSE lifespan_pc
    /\ UNCHANGED <<corpus, ml_models, req, nw>>

\* faulty variant of LifespanRegister, which the properties must tell apart: the model is registered before it is loaded
LifespanRegisterEarly ==
    /\ lifespan_pc = "startup"
    /\ phase = "constructed"
    /\ ml_models' = [k \in {"shakespeare"} |-> "model"]
    /\ UNCHANGED <<corpus, phase, modelVars, lifespan_pc, req, nw>>

\* lines 20-22: the model is registered and the application serves
LifespanRegister ==
    /\ lifespan_pc = "startup"
    /\ phase = "built"
    /\ ml_models' = [k \in {"shakespeare"} |-> "model"]
    /\ lifespan_pc' = "serving"
    /\ UNCHANGED <<corpus, phase, modelVars, req, nw>>

\* line 24: ml_models.clear()
LifespanShutdown ==
    /\ lifespan_pc = "serving"
    /\ ml_models' = <<>>
    /\ lifespan_pc' = "stopped"
    /\ UNCHANGED <<corpus, phase, modelVars, req, nw>>

-----------------------------------------------------------------------------
(* The serving process *)

\* the corpus files the process is started on: one whose chain never reaches
\* the terminator, one whose table offers the terminator at every step, one
\* whose start word is answered by the fallback, and one too short for the
\* default mlag
Corpora ==
    { <<"a", "b", "a", "b", "a", "b">>,
      <<"a", "a", "a", "a", "a", ".">>,
      <<"romeo", ".", ".", ".", ".", ".">>,
      <<"to", "be">> }

NoCall == [called |-> FALSE, key_words |-> <<>>, raised |-> FALSE, word |-> "",
           fallback |-> FALSE]

\* Before lifespan runs: no object yet (its fields hold placeholders), an
\* empty registry, no request
Init ==
    /\ corpus \in Corpora
    /\ phase = "none"
    /\ mlag = 0
    /\ top_k = 0
    /\ vocab = <<>>
    /\ word_to_id = <<>>
    /\ id_to_word = <<>>
    /\ M = NoneM
    /\ tokens = <<>>
    /\ ml_models = <<>>
    /\ lifespan_pc = "startup"
    /\ req = [c \in Callers |-> Idle]
    /\ nw = NoCall

Next ==
    \/ LifespanConstruct
    \/ LifespanLoad
    \/ LifespanBuild
    \/ LifespanRegister
    \/ LifespanShutdown
    \/ \E c \in Callers, raw \in RequestWords : GenerateText(c, raw)
    \/ \E c \in Callers : LoopIteration(c)
    \/ \E c \in Callers : ReturnSentence(c)

Spec == Init /\ [][Next]_vars

-----------------------------------------------------------------------------
(* The class used directly, as the script at markov.py 184-189 does, with    *)
(* every corpus up to MaxCorpusLen words, every mlag up to MaxMlag and the   *)
(* vocabulary sizes TopKs; next_word is then called on every short key.      *)

LibWords == {"a", "."}

\* the scenario corpus of the specification
Scenario == <<"romeo", "is", "here", ".", "juliet", "is", "there", ".">>

LibCorpora == SeqsUpTo(LibWords, MaxCorpusLen) \cup {Scenario}

TopKs == {-1, 0, 1, 2, DefaultTopK}

\* the words a key is made of: those of the corpus and one unknown word
KeyWords == Range(corpus) \cup {"unknownword"}

InitLib ==
    /\ corpus \in LibCorpora
    /\ phase = "none"
    /\ mlag = 0
    /\ top_k = 0
    /\ vocab = <<>>
    /\ word_to_id = <<>>
    /\ id_to_word = <<>>
    /\ M = NoneM
    /\ tokens = <<>>
    /\ ml_models = <<>>
    /\ lifespan_pc = "none"
    /\ req = [c \in Callers |-> Idle]
    /\ nw = NoCall

\* line 185, with the parameters of __init__ chosen
LibConstruct ==
    /\ lifespan_pc = "none"
    /\ \E ml \in 1..MaxMlag, tk \in TopKs : Construct(ml, tk)
    /\ UNCHANGED <<corpus, ml_models, lifespan_pc, req, nw>>

\* line 186
LibLoad ==
    /\ lifespan_pc = "none"
    /\ LoadAndProcess
    /\ UNCHANGED <<corpus, ml_models, lifespan_pc, req, nw>>

\* line 187
LibBuild ==
    /\ lifespan_pc = "none"
    /\ BuildMatrix
    /\ UNCHANGED <<corpus, ml_models, lifespan_pc, req, nw>>

\* a call next_word(key_words) on the built model, and what it returns; a
\* call writes nothing a later call reads, so a run makes one
LibNextWord ==
    /\ lifespan_pc = "none"
    /\ phase = "built"
    /\ ~nw.called
    /\ \E key_words \in SeqsUpTo(KeyWords, MaxKeyLen) :
          \E o \in NextWordOutcomes(key_words) :
              nw' = [called |-> TRUE, key_words |-> key_words, raised |-> o.raised,
                     word |-> o.word, fallback |-> Fallback(key_words)]
    /\ UNCHANGED <<corpus, phase, modelVars, ml_models, lifespan_pc, req>>

NextLib == LibConstruct \/ LibLoad \/ LibBuild \/ LibNextWord

SpecLib == InitLib /\ [][NextLib]_vars

-----------------------------------------------------------------------------
(* Properties of load_and_process and build_matrix, under SpecLib *)

\* the window positions whose target and most recent context are not the
\* sentinel, stated on the stream
KeptPositions ==
    {p \in 1..(Len(tokens) - mlag) :
        tokens[p + mlag] # Sentinel /\ tokens[p + mlag - 1] # Sentinel}

\* the r-th kept position in stream order
KeptAt(r) == CHOOSE p \in KeptPositions : Cardinality({q \in KeptPositions : q < p}) = r - 1

\* C6: the table is built exactly when the stream has at least mlag+1
\* positions; its rows are, in stream order, the windows of mlag+1
\* consecutive stream entries whose last two entries are not the sentinel,
\* whatever the earlier entries are; the last two entries of every row are
\* ids of the vocabulary.
C6_RowsAreTheValidWindows ==
    /\ phase = "raised" => Len(tokens) < mlag + 1
    /\ phase = "built" =>
          /\ Len(tokens) >= mlag + 1
          /\ Len(M.rows) = Cardinality(KeptPositions)
          /\ \A r \in 1..Len(M.rows) :
                /\ Len(M.rows[r]) = mlag + 1
                /\ \A j \in 1..(mlag + 1) : M.rows[r][j] = tokens[KeptAt(r) + j - 1]
                /\ M.rows[r][mlag + 1] \in DOMAIN id_to_word
                /\ M.rows[r][mlag] \in DOMAIN id_to_word

\* C6 witness: a built table that keeps a window whose first entry is the
\* sentinel and drops another window
C6_Witness ==
    /\ phase = "built"
    /\ mlag = 2
    /\ \E r \in 1..Len(M.rows) : M.rows[r][1] = Sentinel
    /\ Len(M.rows) < Len(tokens) - mlag

\* C3: loading with top_k <= 0 fails: no model with such a top_k gets
\* through load_and_process and build_matrix and is ready for generation.
C3_NonPositiveTopKFailsLoad == top_k <= 0 => phase # "built"


-----------------------------------------------------------------------------
(* Properties of next_word, under SpecLib.  The key, the rows matched at a   *)
(* length and the frequencies are stated here on the table, apart from the   *)
(* operators that model the code.                                            *)

\* the ids of the words of the last call that are in the vocabulary
CalledIds ==
    LET at == {j \in 1..Len(nw.key_words) : nw.key_words[j] \in Range(vocab)}
        Nth(n) == CHOOSE j \in at : Cardinality({h \in at : h < j}) = n - 1
    IN  [n \in 1..Cardinality(at) |->
            (CHOOSE d \in 0..(Len(vocab) - 1) : vocab[d + 1] = nw.key_words[Nth(n)])]

\* key: the trailing mlag of them
CalledKey ==
    LET ids == CalledIds
        drop == IF Len(ids) > mlag THEN Len(ids) - mlag ELSE 0
    IN  [n \in 1..(Len(ids) - drop) |-> ids[n + drop]]

\* the rows whose columns [mlag-i, mlag) equal the trailing i ids of key
RowsAt(key, i) ==
    {r \in 1..Len(M.rows) :
        \A j \in 1..i : M.rows[r][mlag - i + j] = key[Len(key) - i + j]}

\* the back-off lengths of key that match at least one row
MatchedLevels(key) == {i \in 1..Len(key) : RowsAt(key, i) # {}}

\* the share of the rows matched at length i whose target is word w
ShareAt(key, i, w) ==
    LET rows == RowsAt(key, i)
    IN  Rat(Cardinality({r \in rows : vocab[M.rows[r][mlag + 1] + 1] = w}),
            Cardinality(rows))

RECURSIVE SumShares(_, _, _)
SumShares(key, S, w) ==
    IF S = {} THEN <<0, 1>>
    ELSE LET i == CHOOSE x \in S : TRUE
         IN  RAdd(ShareAt(key, i, w), SumShares(key, S \ {i}, w))

\* C7: with a non-empty table a call never raises and returns a word of the
\* vocabulary, whatever the key words are; when no back-off length matches
\* a row, the word is the word of a non-sentinel position of the stream.
C7_NextWordTotal ==
    (nw.called /\ M.rows # <<>>) =>
        /\ ~nw.raised
        /\ nw.word \in Range(vocab)
        /\ \A key \in {CalledKey} :
              MatchedLevels(key) = {} =>
                  \E p \in 1..Len(tokens) :
                      tokens[p] # Sentinel /\ vocab[tokens[p] + 1] = nw.word

\* C7 witness: a call whose key words are all unknown, answered from a
\* stream that holds the sentinel, with a non-empty table
C7_Witness ==
    /\ nw.called
    /\ M.rows # <<>>
    /\ nw.key_words = <<"unknownword", "unknownword">>
    /\ MatchedLevels(CalledKey) = {}
    /\ \E p \in 1..Len(tokens) : tokens[p] = Sentinel
    /\ ~nw.raised

\* C10: every back-off length of the key is tried; the call falls back
\* exactly when none matches; and the probability of returning w is the
\* mean, over the L lengths that match a row, of the share of the rows
\* matched at that length whose target is w.
C10_MeanOfLevelShares ==
    nw.called =>
        \A key \in {CalledKey} : \A levels \in {MatchedLevels(key)} :
            /\ nw.fallback = (levels = {})
            /\ levels # {} =>
                  \A w \in Range(vocab) :
                      NextWordProb(nw.key_words, w) =
                          RDiv(SumShares(key, levels, w), <<Cardinality(levels), 1>>)

\* C10 witness: a call whose key matches at two lengths with different
\* shares for the word returned
C10_Witness ==
    /\ nw.called
    /\ ~nw.raised
    /\ Len(CalledKey) = 2
    /\ MatchedLevels(CalledKey) = {1, 2}
    /\ ShareAt(CalledKey, 1, nw.word) # ShareAt(CalledKey, 2, nw.word)

\* C8 as stated: at a key that matches N rows (at its full length), the
\* probability of returning each target is its frequency among those N rows.
C8_FullContextFrequencies ==
    nw.called =>
        \A key \in {CalledKey} :
            RowsAt(key, Len(key)) # {} =>
                \A w \in Range(vocab) :
                    NextWordProb(nw.key_words, w) = ShareAt(key, Len(key), w)

\* C8 amended: when exactly one back-off length of the key matches rows, N
\* rows say, the probability of returning each target is its frequency
\* among those N rows.
C8_SingleLevelFrequencies ==
    nw.called =>
        \A key \in {CalledKey} : \A levels \in {MatchedLevels(key)} :
            Cardinality(levels) = 1 =>
                \A i \in levels : \A w \in Range(vocab) :
                    NextWordProb(nw.key_words, w) = ShareAt(key, i, w)

\* C8 witness: a one-word context that matches several rows with two
\* different targets
C8_Witness ==
    /\ nw.called
    /\ ~nw.raised
    /\ MatchedLevels(CalledKey) = {1}
    /\ Cardinality(RowsAt(CalledKey, 1)) >= 3
    /\ \E w \in Range(vocab) : ShareAt(CalledKey, 1, w) \notin {<<0, 1>>, <<1, 1>>, <<1, 2>>}

-----------------------------------------------------------------------------
(* Properties of the serving process, under Spec and FairSpec *)

\* The process with one thread serving requests, which the scheduler keeps
\* running while it is inside a request: a call of generate_sentence shares
\* nothing it writes with another call.
NextOne ==
    \/ LifespanConstruct
    \/ LifespanLoad
    \/ LifespanBuild
    \/ LifespanRegister
    \/ LifespanShutdown
    \/ \E raw \in RequestWords : GenerateText("c1", raw)
    \/ LoopIteration("c1")
    \/ ReturnSentence("c1")

FairSpec ==
    /\ Init
    /\ [][NextOne]_vars
    /\ WF_vars(LoopIteration("c1"))
    /\ WF_vars(ReturnSentence("c1"))

Registered == "shakespeare" \in DOMAIN ml_models

\* the predicted tokens of caller c: the list without the start word
Predicted(c) == Tail(req[c].generated)

\* C1: every generation that has started ends, and its list never holds
\* more than the start word and 50 predicted tokens.
C1_TerminatesWithinCap ==
    /\ [](\A c \in Callers : Len(req[c].generated) <= MaxGenerated + 1
                             /\ req[c].count <= MaxGenerated)
    /\ \A c \in Callers : (req[c].pc = "loop") ~> (req[c].pc = "done")

\* C1 witness: a sentence returned at the cap, without a terminator
C1_Witness ==
    \E c \in Callers :
        /\ req[c].pc = "done"
        /\ req[c].kind = "sentence"
        /\ Len(req[c].generated) = MaxGenerated + 1
        /\ Terminator \notin Range(req[c].generated)

\* C2: a request whose start word is not in the vocabulary of the
\* registered model is answered at once with the error message, as a value:
\* it never enters the loop and no next_word call is made for it.
C2_UnknownStartWordIsAValue ==
    \A c \in Callers :
        (req[c].sawModel /\ req[c].start_word \notin Range(vocab)) =>
            /\ req[c].pc = "done"
            /\ req[c].kind = "sentence"
            /\ req[c].status = 200
            /\ req[c].body = <<<<"", ErrorMessage>>>>
            /\ req[c].generated = <<>>
            /\ req[c].draws = 0

\* C2 witness: an unknown start word answered while the other caller is in
\* the middle of a generation
C2_Witness ==
    /\ req["c1"].sawModel
    /\ req["c1"].start_word = "unknownword"
    /\ req["c1"].body = <<<<"", ErrorMessage>>>>
    /\ req["c2"].pc = "loop"
    /\ req["c2"].draws > 0


\* C4: a model is registered only once it has got through load_and_process
\* and build_matrix; a request received while none is registered (before
\* the startup has finished, after a failed startup, after the shutdown) is
\* rejected with 503 and runs no generation; a request that generates, or
\* is answered 200, was received while the built model was registered.
C4_ServedOnlyWhenLoaded ==
    /\ [](/\ Registered => phase = "built"
          /\ \A c \in Callers :
                (req[c].pc = "loop" \/ req[c].status = 200 \/ req[c].draws > 0) =>
                    req[c].sawModel /\ phase = "built")
    /\ [][\A c \in Callers :
             (~Registered /\ req[c].pc \in {"idle", "done"} /\ req'[c] # req[c]) =>
                 /\ req'[c].pc = "done"
                 /\ req'[c].status = 503
                 /\ req'[c].kind = "unavailable"
                 /\ req'[c].generated = <<>>
                 /\ req'[c].draws = 0]_vars

\* C4 witness: one caller rejected before the model was registered, while
\* the other is answered with a generated sentence
C4_Witness ==
    /\ req["c1"].status = 503
    /\ req["c2"].status = 200
    /\ req["c2"].draws > 0
    /\ Registered

\* C5: once the model is built, no step of the process, whichever caller
\* takes it, changes vocab, word_to_id, id_to_word, tokens or M.
C5_ModelImmutableAfterLoad ==
    [][phase = "built" =>
          <<vocab, word_to_id, id_to_word, tokens, M>>' =
              <<vocab, word_to_id, id_to_word, tokens, M>>]_vars

\* C5 witness: both callers in the middle of a generation, each having
\* called next_word several times
C5_Witness ==
    /\ req["c1"].pc = "loop"
    /\ req["c2"].pc = "loop"
    /\ req["c1"].draws >= 2
    /\ req["c2"].draws >= 2
    /\ req["c1"].generated # req["c2"].generated

\* a request that was answered with a generated list
Generated(c) == req[c].pc = "done" /\ req[c].kind = "sentence" /\ req[c].generated # <<>>

\* every token appended to a list is an outcome of next_word on the list so
\* far, and the loop takes another pass whenever neither the terminator nor
\* the cap has been reached
StepsFollowNextWord ==
    \A c \in Callers :
        /\ (req[c].pc = "loop" /\ req'[c].pc = "loop" /\ req'[c] # req[c]) =>
              /\ \E o \in NextWordOutcomes(req[c].generated) :
                    ~o.raised /\ req'[c].generated = Append(req[c].generated, o.word)
              /\ req'[c].count = req[c].count + 1
        /\ (req[c].pc = "loop" /\ req'[c].pc = "done" /\ req'[c].kind = "sentence") =>
              /\ req'[c].generated = req[c].generated
              /\ \/ req[c].generated[Len(req[c].generated)] = Terminator
                 \/ Len(Predicted(c)) = MaxGenerated

\* C9 as stated: the list of an answered generation is the start word and k
\* predicted tokens, 1 <= k <= 50, none of the first k-1 the terminator,
\* and the k-th the terminator when k < 50.
C9_AtLeastOnePrediction ==
    \A c \in Callers :
        Generated(c) =>
            LET k == Len(Predicted(c))
            IN  /\ req[c].generated[1] = req[c].start_word
                /\ 1 <= k /\ k <= MaxGenerated
                /\ \A j \in 1..(k - 1) : Predicted(c)[j] # Terminator
                /\ k < MaxGenerated => Predicted(c)[k] = Terminator

\* C9 amended: for a start word other than the terminator, the list is the
\* start word and k predicted tokens, 1 <= k <= 50, each an outcome of
\* next_word on the list so far, none of the first k-1 the terminator, and
\* the k-th the terminator when k < 50; for the terminator as start word
\* the list is the start word alone and next_word is not called.
C9_StopsAtTerminatorOrCap ==
    /\ [](\A c \in Callers :
            /\ req[c].pc = "loop" =>
                  /\ req[c].generated[1] = req[c].start_word
                  /\ Len(Predicted(c)) = req[c].count
                  /\ req[c].count = req[c].draws
                  /\ \A j \in 1..(req[c].count - 1) : Predicted(c)[j] # Terminator
            /\ Generated(c) =>
                  LET k == Len(Predicted(c))
                  IN  /\ req[c].generated[1] = req[c].start_word
                      /\ k = req[c].draws
                      /\ k <= MaxGenerated
                      /\ \A j \in 1..(k - 1) : Predicted(c)[j] # Terminator
                      /\ req[c].start_word # Terminator =>
                            /\ 1 <= k
                            /\ k < MaxGenerated => Predicted(c)[k] = Terminator
                      /\ req[c].start_word = Terminator => k = 0)
    /\ [][StepsFollowNextWord]_vars

\* C9 witness: one caller answered with a list that ends at the terminator
\* before the cap, the other with the terminator alone
C9_Witness ==
    /\ Generated("c1")
    /\ req["c1"].start_word # Terminator
    /\ Len(Predicted("c1")) \in 2..(MaxGenerated - 1)
    /\ Predicted("c1")[Len(Predicted("c1"))] = Terminator
    /\ Generated("c2")
    /\ req["c2"].generated = <<Terminator>>

=============================================================================
